---- MODULE Spec2Model ----
(***************************************************************************)
(* Model of the two availability pipelines of the repository:              *)
(*   "proc"  : Device_Availability/Switch_Availability.py                   *)
(*             (multiprocessing Pool of one worker, pool.imap)              *)
(*   "async" : Device_Availability/Switch_Availability_asyncio.py           *)
(*             (asyncio.gather over one coroutine per device)               *)
(* Both programs are run against the same NetBox inventory and the same    *)
(* LibreNMS responses, so that their runs can be compared.                 *)
(*                                                                         *)
(* Percentages are the decimal strings of the API ("99.500000"), kept as   *)
(* the pair <<integer part, six fractional digits>>; float() converts them *)
(* to the nearest double, and sums and means are computed in doubles.      *)
(***************************************************************************)
EXTENDS Integers, Sequences, FiniteSets, TLC

VARIABLES netbox, inventory_calls, pc, device_list, task_total, ticks, fetch,
          order, results, idx, avail, error, report, warnings

vars == <<netbox, inventory_calls, pc, device_list, task_total, ticks, fetch,
          order, results, idx, avail, error, report, warnings>>

\* Largest number of devices the inventory returns.
MaxDevices == 3

\* Largest number of devices when the fetch of one device is examined.
MaxFetchDevices == 2

\* The two programs of the repository.
Variants == {"proc", "async"}

\* Pool(processes=max_processes) of multi_proc.
max_processes == 1

\* The four standard duration windows, in seconds.
DAY == 86400
WEEK == 604800
MONTH == 2592000
YEAR == 31536000

WindowOrder == <<DAY, WEEK, MONTH, YEAR>>

Label(d) == IF d = DAY THEN "day"
            ELSE IF d = WEEK THEN "week"
            ELSE IF d = MONTH THEN "month" ELSE "year"

----------------------------------------------------------------------------
(* The environment: what LibreNMS answers for a device.                    *)

Entry(d, ip, fp) == [duration |-> d, availability_perc |-> <<ip, fp>>]

\* raises: requests.get / session.get raises (no response, status 0), or
\* .json() raises on the body.  status: the HTTP status of the response.
RespFail == [raises |-> TRUE, status |-> 0, availability |-> <<>>]
RespEmpty == [raises |-> FALSE, status |-> 200, availability |-> <<>>]
RespFull100 == [raises |-> FALSE, status |-> 200, availability |->
                 <<Entry(DAY, 100, 0), Entry(WEEK, 100, 0),
                   Entry(MONTH, 100, 0), Entry(YEAR, 100, 0)>>]
RespFull99 == [raises |-> FALSE, status |-> 200, availability |->
                 <<Entry(DAY, 99, 999000), Entry(WEEK, 99, 998500),
                   Entry(MONTH, 99, 75954), Entry(YEAR, 99, 708378)>>]
RespDayOnly == [raises |-> FALSE, status |-> 200, availability |-> <<Entry(DAY, 100, 0)>>]

\* A body that is not JSON: .json() raises.
RespMalformed == [raises |-> TRUE, status |-> 200, availability |-> <<>>]
\* Non-success statuses whose body still carries an availability list.
Resp500Empty == [raises |-> FALSE, status |-> 500, availability |-> <<>>]
Resp500Full == [raises |-> FALSE, status |-> 500, availability |->
                 <<Entry(DAY, 100, 0), Entry(WEEK, 100, 0),
                   Entry(MONTH, 100, 0), Entry(YEAR, 100, 0)>>]
\* A list with two entries for the same duration.
RespDupDay == [raises |-> FALSE, status |-> 200, availability |->
                 <<Entry(DAY, 99, 0), Entry(DAY, 100, 0), Entry(WEEK, 100, 0),
                   Entry(MONTH, 100, 0), Entry(YEAR, 100, 0)>>]

\* The responses the mocked monitoring API may give for one device.
Responses == {RespFail, RespEmpty, RespFull100, RespFull99, RespDayOnly}

\* Sequences of length 0..n over S.
RECURSIVE SeqsUpTo(_, _)
SeqsUpTo(S, n) ==
    IF n = 0 THEN {<<>>}
    ELSE LET shorter == SeqsUpTo(S, n - 1)
         IN shorter \cup {Append(s, x) : s \in {t \in shorter : Len(t) = n - 1}, x \in S}

\* A device as returned by NetBox: its name (its position in the inventory)
\* and what LibreNMS will answer for it.
MakeDevices(rs) == [i \in DOMAIN rs |-> [name |-> i, response |-> rs[i]]]

Inventories ==
    {[ok |-> FALSE, devices |-> <<>>]} \cup
    {[ok |-> TRUE, devices |-> MakeDevices(rs)] : rs \in SeqsUpTo(Responses, MaxDevices)}

\* The wider set of responses, over shorter inventories, under which the
\* fetch of one device is examined.
FetchResponses == Responses \cup {RespMalformed, Resp500Empty, Resp500Full, RespDupDay}

FetchInventories ==
    {[ok |-> TRUE, devices |-> MakeDevices(rs)] : rs \in SeqsUpTo(FetchResponses, MaxFetchDevices)}

----------------------------------------------------------------------------
(* get_availability                                                        *)

PyNone == [kind |-> "None"]
PyRaise == [kind |-> "raise"]

\* The index of the last entry of the list with duration d: a dict
\* comprehension keeps the value of the last occurrence of a key.
LastIndexOf(list, d) ==
    CHOOSE i \in DOMAIN list :
        /\ list[i].duration = d
        /\ \A j \in DOMAIN list : list[j].duration = d => j <= i

\* The comprehension with every key given the percentage of the first entry.
SamplesOf_FirstPerc(list) ==
    [d \in {list[i].duration : i \in DOMAIN list} |-> list[1].availability_perc]

\* {avail["duration"]: avail["availability_perc"] for avail in list_of_avails}
SamplesOf(list) ==
    [d \in {list[i].duration : i \in DOMAIN list} |->
        list[LastIndexOf(list, d)].availability_perc]

\* Switch_Availability.py: the request or .json() raises, or the list is
\* empty (None and a console diagnostic), or the record is built.
get_availability(device) ==
    IF device.response.raises THEN PyRaise
    ELSE IF Len(device.response.availability) = 0 THEN PyNone
    ELSE [kind |-> "record", Name |-> device.name,
          samples |-> SamplesOf(device.response.availability)]

\* Switch_Availability_asyncio.py: the same steps over aiohttp.
get_availability_async(device) ==
    IF device.response.raises THEN PyRaise
    ELSE IF device.response.availability = <<>> THEN PyNone
    ELSE [kind |-> "record", Name |-> device.name,
          samples |-> SamplesOf(device.response.availability)]

FetchOutcome(v, device) ==
    IF v = "proc" THEN get_availability(device) ELSE get_availability_async(device)

----------------------------------------------------------------------------
(* average_availability                                                    *)

\* Python floats are IEEE 754 doubles.  A double is the record
\* [m |-> mantissa, e |-> exponent] standing for m * 2^e, where the
\* mantissa is a natural number of exactly 53 bits (or zero), written as its
\* digits in base Limb, least significant first.  Every operation computes
\* the exact result and rounds it to the nearest double, ties to the even
\* mantissa, as the hardware does.  The percentages are nonnegative and far
\* from the ends of the exponent range, so signs, subnormals and infinities
\* do not occur.
Limb == 2^15
MantissaBits == 53

RECURSIVE BigNorm(_)
BigNorm(a) == IF a = <<>> THEN <<>>
              ELSE IF a[Len(a)] = 0 THEN BigNorm(SubSeq(a, 1, Len(a) - 1))
              ELSE a

RECURSIVE BigFromInt(_)
BigFromInt(n) == IF n = 0 THEN <<>> ELSE <<n % Limb>> \o BigFromInt(n \div Limb)

RECURSIVE BigToInt(_)
BigToInt(a) == IF a = <<>> THEN 0 ELSE a[1] + Limb * BigToInt(Tail(a))

RECURSIVE BigAddC(_, _, _)
BigAddC(a, b, c) ==
    IF a = <<>> /\ b = <<>> THEN BigFromInt(c)
    ELSE LET x == IF a = <<>> THEN 0 ELSE a[1]
             y == IF b = <<>> THEN 0 ELSE b[1]
             t == x + y + c
         IN <<t % Limb>> \o BigAddC(IF a = <<>> THEN <<>> ELSE Tail(a),
                                    IF b = <<>> THEN <<>> ELSE Tail(b),
                                    t \div Limb)

BigAdd(a, b) == BigAddC(a, b, 0)

\* a * c + carry for 0 < c < Limb.
RECURSIVE BigMulSmall(_, _, _)
BigMulSmall(a, c, carry) ==
    IF a = <<>> THEN BigFromInt(carry)
    ELSE LET t == a[1] * c + carry
         IN <<t % Limb>> \o BigMulSmall(Tail(a), c, t \div Limb)

\* Long division of the digits a[1..i] by 0 < d < Limb, r the remainder
\* carried down from the digits above.
RECURSIVE BigDivStep(_, _, _, _)
BigDivStep(a, d, i, r) ==
    IF i = 0 THEN [q |-> <<>>, r |-> r]
    ELSE LET t == r * Limb + a[i]
             rest == BigDivStep(a, d, i - 1, t % d)
         IN [q |-> Append(rest.q, t \div d), r |-> rest.r]

BigDivSmall(a, d) ==
    LET res == BigDivStep(a, d, Len(a), 0)
    IN [q |-> BigNorm(res.q), r |-> res.r]

RECURSIVE IntBitLen(_)
IntBitLen(n) == IF n = 0 THEN 0 ELSE 1 + IntBitLen(n \div 2)

BitLen(a) == IF a = <<>> THEN 0 ELSE 15 * (Len(a) - 1) + IntBitLen(a[Len(a)])

\* a * 2^s
BigShl(a, s) ==
    IF a = <<>> THEN <<>>
    ELSE [i \in 1..(s \div 15) |-> 0] \o BigMulSmall(a, 2^(s % 15), 0)

\* floor(a / 2^s)
BigShr(a, s) ==
    IF s \div 15 >= Len(a) THEN <<>>
    ELSE BigDivSmall(SubSeq(a, (s \div 15) + 1, Len(a)), 2^(s % 15)).q

\* Bit s of a, bit 0 the least significant.
BitAt(a, s) ==
    IF s < 0 \/ (s \div 15) + 1 > Len(a) THEN 0
    ELSE (a[(s \div 15) + 1] \div 2^(s % 15)) % 2

\* a mod 2^s # 0
LowNonZero(a, s) ==
    /\ s > 0
    /\ \/ \E i \in 1..(s \div 15) : i <= Len(a) /\ a[i] # 0
       \/ (s \div 15) + 1 <= Len(a) /\ a[(s \div 15) + 1] % 2^(s % 15) # 0

IsOdd(a) == a # <<>> /\ a[1] % 2 = 1

\* floor(a / 2^s) rounded to nearest, ties to even; sticky says that the
\* exact value lies strictly above a.
BigShrRound(a, s, sticky) ==
    LET q == BigShr(a, s)
        up == /\ BitAt(a, s - 1) = 1
              /\ sticky \/ LowNonZero(a, s - 1) \/ IsOdd(q)
    IN IF s = 0 THEN a ELSE IF up THEN BigAdd(q, <<1>>) ELSE q

DZero == [m |-> <<>>, e |-> 0]

\* The double nearest to a * 2^e (a little more than that when sticky).
RoundBig(a, sticky, e) ==
    LET k == BitLen(a) - MantissaBits
        m == BigShrRound(a, k, sticky)
    IN IF a = <<>> THEN DZero
       ELSE IF k <= 0 THEN [m |-> BigShl(a, -k), e |-> e + k]
       ELSE IF BitLen(m) > MantissaBits THEN [m |-> BigShr(m, 1), e |-> e + k + 1]
       ELSE [m |-> m, e |-> e + k]

\* The double nearest to (a / d) * 2^e, for 0 < d < Limb.
RoundRat(a, d, e) ==
    LET need == MantissaBits + 3 + IntBitLen(d) - BitLen(a)
        s == IF need > 0 THEN need ELSE 0
        dv == BigDivSmall(BigShl(a, s), d)
    IN RoundBig(dv.q, dv.r # 0, e - s)

\* x + y
DAdd(x, y) ==
    LET e == IF x.e < y.e THEN x.e ELSE y.e
    IN IF x.m = <<>> THEN y
       ELSE IF y.m = <<>> THEN x
       ELSE RoundBig(BigAdd(BigShl(x.m, x.e - e), BigShl(y.m, y.e - e)), FALSE, e)

\* x / n for an int n > 0
DDivInt(x, n) == IF x.m = <<>> THEN DZero ELSE RoundRat(x.m, n, x.e)

\* float("99.500000"): the double nearest to the decimal.  The decimal is
\* n / 10^6 = (n / 5^6) * 2^-6.
ParseFloat(perc) ==
    LET n == perc[1] * 1000000 + perc[2]
    IN IF n = 0 THEN DZero ELSE RoundRat(BigFromInt(n), 5^6, -6)

\* sum(xs): starts from 0 and adds the elements left to right, one rounding
\* per addition (the plain loop of CPython up to 3.11; the interpreter that
\* runs the repository here is 3.11).
RECURSIVE SumSeq(_)
SumSeq(xs) ==
    IF xs = <<>> THEN DZero
    ELSE DAdd(SumSeq(SubSeq(xs, 1, Len(xs) - 1)), xs[Len(xs)])

\* sum(xs) / len(xs); len(xs) > 0.
MeanCompute(xs) == DDivInt(SumSeq(xs), Len(xs))

\* round(x, 3) followed by ":.3f": the decimal with three places nearest to
\* the exact value of the double x, ties to even, in thousandths.
Round3Compute(x) ==
    LET a == BigMulSmall(x.m, 1000, 0)
    IN IF x.m = <<>> THEN 0
       ELSE IF x.e >= 0 THEN BigToInt(BigShl(a, x.e))
       ELSE BigToInt(BigShrRound(a, -x.e, FALSE))

\* The doubles the model's responses give rise to are computed once and
\* looked up afterwards; any other argument is computed on the spot.
KnownPercs ==
    UNION {{r.availability[k].availability_perc : k \in DOMAIN r.availability} :
              r \in FetchResponses}

FloatTable == [p \in KnownPercs |-> ParseFloat(p)]

float(perc) == IF perc \in KnownPercs THEN FloatTable[perc] ELSE ParseFloat(perc)

KnownLists ==
    SeqsUpTo({FloatTable[p] : p \in KnownPercs},
             IF MaxDevices > MaxFetchDevices THEN MaxDevices ELSE MaxFetchDevices)

MeanTable == [xs \in KnownLists \ {<<>>} |-> MeanCompute(xs)]

Mean(xs) == IF xs \in DOMAIN MeanTable THEN MeanTable[xs] ELSE MeanCompute(xs)

Round3Table == [x \in {MeanTable[xs] : xs \in DOMAIN MeanTable} |-> Round3Compute(x)]

\* The entries of results that are not None, in order.
NotNone(rs) == SelectSeq(rs, LAMBDA r : r.kind # "None")

\* [float(result[d]) for result in results if result is not None]
\* raises KeyError when a record has no key d.
HasKeyError(rs, d) == \E i \in DOMAIN rs : rs[i].kind # "None" /\ d \notin DOMAIN rs[i].samples

WindowValues(rs, d) ==
    LET recs == NotNone(rs)
    IN [i \in DOMAIN recs |-> float(recs[i].samples[d])]

\* The whole function: the four comprehensions in order, then the four
\* divisions in order.  Returns the exception raised, or the dictionary.
average_availability(rs) ==
    IF \E k \in 1..4 : HasKeyError(rs, WindowOrder[k])
    THEN [raised |-> "KeyError", value |-> <<>>]
    ELSE IF \E k \in 1..4 : Len(WindowValues(rs, WindowOrder[k])) = 0
    THEN [raised |-> "ZeroDivisionError", value |-> <<>>]
    ELSE [raised |-> "none",
          value |-> [day |-> Mean(WindowValues(rs, DAY)),
                     week |-> Mean(WindowValues(rs, WEEK)),
                     month |-> Mean(WindowValues(rs, MONTH)),
                     year |-> Mean(WindowValues(rs, YEAR))]]

average_availability_async(rs) ==
    IF \E k \in 1..4 : HasKeyError(rs, WindowOrder[k])
    THEN [raised |-> "KeyError", value |-> <<>>]
    ELSE IF \E k \in 1..4 : Len(WindowValues(rs, WindowOrder[k])) = 0
    THEN [raised |-> "ZeroDivisionError", value |-> <<>>]
    ELSE [raised |-> "none",
          value |-> [day |-> Mean(WindowValues(rs, DAY)),
                     week |-> Mean(WindowValues(rs, WEEK)),
                     month |-> Mean(WindowValues(rs, MONTH)),
                     year |-> Mean(WindowValues(rs, YEAR))]]

Aggregate(v, rs) ==
    IF v = "proc" THEN average_availability(rs) ELSE average_availability_async(rs)

\* f"{round(avail['day'], 3):.3f}"
Round3(x) == IF x \in DOMAIN Round3Table THEN Round3Table[x] ELSE Round3Compute(x)

Render(a) == [day |-> Round3(a.day), week |-> Round3(a.week),
              month |-> Round3(a.month), year |-> Round3(a.year)]

----------------------------------------------------------------------------
(* State                                                                   *)

NoAvail == <<>>

InitWith(inventories) ==
    /\ netbox \in inventories
    /\ inventory_calls = [v \in Variants |-> 0]
    /\ pc = [v \in Variants |-> "start"]
    /\ device_list = [v \in Variants |-> <<>>]
    /\ task_total = [v \in Variants |-> -1]
    /\ ticks = [v \in Variants |-> 0]
    /\ fetch = [v \in Variants |-> <<>>]
    /\ order = [v \in Variants |-> <<>>]
    /\ results = [v \in Variants |-> <<>>]
    /\ idx = [v \in Variants |-> 1]
    /\ avail = [v \in Variants |-> NoAvail]
    /\ error = [v \in Variants |-> "none"]
    /\ report = [v \in Variants |-> <<>>]
    /\ warnings = [v \in Variants |-> {}]

Init == InitWith(Inventories)

FetchInit == InitWith(FetchInventories)

\* The fetches that have been started and have not completed.
InFlight(v) == {i \in DOMAIN fetch[v] : fetch[v][i] = "running"}

\* The tasks whose result the pool's worker is putting on the result queue:
\* the worker holds the write lock of that queue, before ("sending") and
\* after ("written") the bytes of the result are in the pipe.
Sending(v) == {i \in DOMAIN fetch[v] : fetch[v][i] \in {"sending", "written"}}

\* Ending a pool or an event loop: the fetches in flight, and the results
\* not yet delivered, are abandoned.
Abandon(fs) ==
    [i \in DOMAIN fs |->
        IF fs[i] \in {"running", "sending", "written"} THEN "cancelled" ELSE fs[i]]

\* How "with Pool(...)" is left by an exception: Pool.__exit__ terminates
\* the pool, which kills the worker and then joins the pool's threads.  A
\* worker killed while it writes a result keeps the write lock of the result
\* queue for ever; when the pool's task thread still has to write to that
\* queue, the join does not return and the exception never leaves the
\* with-block.
TerminateOutcomes(fs) ==
    IF \E i \in DOMAIN fs : fs[i] \in {"sending", "written"}
    THEN {[pc |-> "crashed", error |-> "FetchFailure"], [pc |-> "hung", error |-> "none"]}
    ELSE {[pc |-> "crashed", error |-> "FetchFailure"]}

\* The exception of the task is the one .json() raises on a body that is
\* not JSON.
JsonRaises(device) == device.response.raises /\ device.response.status = 200

\* What happens to the exception of task i on its way to "for result in
\* pool.imap(...)".  It is re-raised there and the pool is terminated.  Or,
\* when it is an exception that cannot be rebuilt from its pickle (the
\* JSONDecodeError of some releases of requests; the repository pins none),
\* the pool's result thread dies on it and the loop waits for its next
\* result for ever, the pool and its worker left running.  When the result
\* thread has died on the exception of a later task, already in the pipe,
\* the termination of the pool finds the thread dead with results
\* outstanding and raises AssertionError in place of the task's exception.
RaiseOutcomes(devices, i, fs) ==
    TerminateOutcomes(fs)
    \cup (IF JsonRaises(devices[i]) THEN {[pc |-> "waiting", error |-> "none"]} ELSE {})
    \cup (IF \E j \in DOMAIN fs :
                 j > i /\ JsonRaises(devices[j]) /\ fs[j] \in {"written", "done"}
          THEN {[pc |-> "crashed", error |-> "AssertionError"]} ELSE {})

\* The pool of multi_proc exists: its worker takes and runs tasks.
PoolRuns == pc["proc"] \in {"imap", "waiting"}

\* The console diagnostic of an Absent device.
Warned(v, i) ==
    IF FetchOutcome(v, device_list[v][i]).kind = "None"
    THEN warnings[v] \cup {device_list[v][i].name}
    ELSE warnings[v]

----------------------------------------------------------------------------
(* Main, both programs: device_list = get_list_of_devices()                *)

GetListOfDevices(v) ==
    /\ pc[v] = "start"
    /\ inventory_calls' = [inventory_calls EXCEPT ![v] = @ + 1]
    /\ IF netbox.ok
       THEN /\ device_list' = [device_list EXCEPT ![v] = netbox.devices]
            /\ fetch' = [fetch EXCEPT ![v] = [i \in DOMAIN netbox.devices |-> "idle"]]
            /\ pc' = [pc EXCEPT ![v] = "multi"]
            /\ error' = error
       ELSE /\ pc' = [pc EXCEPT ![v] = "crashed"]
            /\ error' = [error EXCEPT ![v] = "InventoryFailure"]
            /\ UNCHANGED <<device_list, fetch>>
    /\ UNCHANGED <<netbox, task_total, ticks, order, results, idx, avail, report, warnings>>

\* The progress total taken from a second inventory query instead of the
\* list passed in.
AddTask_Requery(v) ==
    /\ pc[v] = "multi"
    /\ inventory_calls' = [inventory_calls EXCEPT ![v] = @ + 1]
    /\ task_total' = [task_total EXCEPT ![v] = Len(netbox.devices)]
    /\ pc' = [pc EXCEPT ![v] = IF v = "proc" THEN "imap" ELSE "tasks"]
    /\ UNCHANGED <<netbox, device_list, ticks, fetch, order, results, idx, avail,
                   error, report, warnings>>

\* multi_proc / multi_async up to the dispatch:
\* task_id = progress.add_task(description, total=len(device_list))
AddTask(v) ==
    /\ pc[v] = "multi"
    /\ task_total' = [task_total EXCEPT ![v] = Len(device_list[v])]
    /\ pc' = [pc EXCEPT ![v] = IF v = "proc" THEN "imap" ELSE "tasks"]
    /\ UNCHANGED <<netbox, inventory_calls, device_list, ticks, fetch, order, results, idx, avail,
                   error, report, warnings>>

----------------------------------------------------------------------------
(* multi_proc: Pool(processes=1), pool.imap                                *)

\* The single worker takes the next task of the queue when it is free.
WorkerStart(i) ==
    /\ PoolRuns
    /\ i \in DOMAIN fetch["proc"]
    /\ fetch["proc"][i] = "idle"
    /\ \A j \in 1..(i - 1) : fetch["proc"][j] = "done"
    /\ Cardinality(InFlight("proc")) < max_processes
    /\ fetch' = [fetch EXCEPT !["proc"][i] = "running"]
    /\ UNCHANGED <<netbox, inventory_calls, pc, device_list, task_total, ticks, order, results, idx,
                   avail, error, report, warnings>>

\* The worker, in get_availability, has the empty list and prints the
\* diagnostic; get_availability has not returned yet.
WorkerDiagnostic(i) ==
    /\ PoolRuns
    /\ i \in DOMAIN fetch["proc"]
    /\ fetch["proc"][i] = "running"
    /\ get_availability(device_list["proc"][i]).kind = "None"
    /\ device_list["proc"][i].name \notin warnings["proc"]
    /\ warnings' = [warnings EXCEPT !["proc"] = Warned("proc", i)]
    /\ UNCHANGED <<netbox, inventory_calls, pc, device_list, task_total, ticks, fetch, order,
                   results, idx, avail, error, report>>

\* get_availability returns (after its diagnostic, when the list is empty)
\* or raises in the worker, which starts to write the outcome to the pool's
\* result queue.
WorkerFinish(i) ==
    /\ PoolRuns
    /\ i \in DOMAIN fetch["proc"]
    /\ fetch["proc"][i] = "running"
    /\ get_availability(device_list["proc"][i]).kind = "None"
          => device_list["proc"][i].name \in warnings["proc"]
    /\ fetch' = [fetch EXCEPT !["proc"][i] = "sending"]
    /\ order' = [order EXCEPT !["proc"] = Append(@, i)]
    /\ UNCHANGED <<netbox, inventory_calls, pc, device_list, task_total, ticks, results, idx,
                   avail, error, report, warnings>>

\* The bytes of the outcome are in the pipe of the result queue, where imap
\* finds them; the worker still holds the write lock.
WorkerWrite(i) ==
    /\ PoolRuns
    /\ i \in DOMAIN fetch["proc"]
    /\ fetch["proc"][i] = "sending"
    /\ fetch' = [fetch EXCEPT !["proc"][i] = "written"]
    /\ UNCHANGED <<netbox, inventory_calls, pc, device_list, task_total, ticks, order, results, idx,
                   avail, error, report, warnings>>

\* The worker releases the write lock: its put has returned and it is free
\* again.
WorkerPut(i) ==
    /\ PoolRuns
    /\ i \in DOMAIN fetch["proc"]
    /\ fetch["proc"][i] = "written"
    /\ fetch' = [fetch EXCEPT !["proc"][i] = "done"]
    /\ UNCHANGED <<netbox, inventory_calls, pc, device_list, task_total, ticks, order, results, idx,
                   avail, error, report, warnings>>

\* One iteration of "for result in pool.imap(...)": the next result in input
\* order is appended and the progress advanced; a task that raised re-raises
\* here and the pool is terminated: the exception leaves both with-blocks,
\* or the termination never returns; or it never reaches the loop at all.
ImapNext ==
    /\ pc["proc"] = "imap"
    /\ idx["proc"] \in DOMAIN fetch["proc"]
    /\ fetch["proc"][idx["proc"]] \in {"written", "done"}
    /\ LET r == get_availability(device_list["proc"][idx["proc"]])
       IN IF r.kind = "raise"
          THEN /\ \E out \in RaiseOutcomes(device_list["proc"], idx["proc"], fetch["proc"]) :
                     /\ pc' = [pc EXCEPT !["proc"] = out.pc]
                     /\ error' = [error EXCEPT !["proc"] = out.error]
                     /\ fetch' = [fetch EXCEPT !["proc"] =
                                     IF out.pc = "waiting" THEN @ ELSE Abandon(@)]
               /\ UNCHANGED <<results, ticks, idx>>
          ELSE /\ results' = [results EXCEPT !["proc"] = Append(@, r)]
               /\ ticks' = [ticks EXCEPT !["proc"] = @ + 1]
               /\ idx' = [idx EXCEPT !["proc"] = @ + 1]
               /\ UNCHANGED <<pc, error, fetch>>
    /\ UNCHANGED <<netbox, inventory_calls, device_list, task_total, order, avail, report, warnings>>

\* The iterator is exhausted and "with Pool" is left: the termination of
\* the pool writes to the result queue itself before it stops the worker, so
\* it waits for the write lock, that is for the worker's last put to return.
\* Then multi_proc returns.
ImapStop ==
    /\ pc["proc"] = "imap"
    /\ idx["proc"] = Len(device_list["proc"]) + 1
    /\ \A i \in DOMAIN fetch["proc"] : fetch["proc"][i] = "done"
    /\ pc' = [pc EXCEPT !["proc"] = "aggregate"]
    /\ UNCHANGED <<netbox, inventory_calls, device_list, task_total, ticks, fetch, order, results, idx,
                   avail, error, report, warnings>>

----------------------------------------------------------------------------
(* multi_async: asyncio.gather                                             *)

\* tasks = [...]; await asyncio.gather(*tasks): every coroutine is scheduled
\* and runs up to its request before the event loop handles any response.
Gather ==
    /\ pc["async"] = "tasks"
    /\ fetch' = [fetch EXCEPT !["async"] = [i \in DOMAIN @ |-> "running"]]
    /\ pc' = [pc EXCEPT !["async"] = "gather"]
    /\ UNCHANGED <<netbox, inventory_calls, device_list, task_total, ticks, order, results, idx,
                   avail, error, report, warnings>>

\* A response arrives and the coroutine of device i returns or raises.  The
\* first exception is set on the gather future (return_exceptions is False).
\* The tasks go on in the event loop while that exception travels: until
\* multi_async is resumed with it, and after main has been left by it, until
\* asyncio.run cancels them.
TaskFinish(i) ==
    /\ pc["async"] \in {"gather", "raising", "closing"}
    /\ i \in DOMAIN fetch["async"]
    /\ fetch["async"][i] = "running"
    /\ fetch' = [fetch EXCEPT !["async"][i] = "done"]
    /\ order' = [order EXCEPT !["async"] = Append(@, i)]
    /\ warnings' = [warnings EXCEPT !["async"] = Warned("async", i)]
    /\ pc' = [pc EXCEPT !["async"] =
                IF /\ @ = "gather"
                   /\ get_availability_async(device_list["async"][i]).kind = "raise"
                THEN "raising" ELSE @]
    /\ UNCHANGED <<netbox, inventory_calls, device_list, task_total, ticks, results, idx,
                   avail, error, report>>

\* The awaiting multi_async is resumed with the exception, which leaves its
\* two with-blocks, multi_async and main; the tasks still pending stay in
\* the event loop.
GatherRaise ==
    /\ pc["async"] = "raising"
    /\ pc' = [pc EXCEPT !["async"] = "closing"]
    /\ error' = [error EXCEPT !["async"] = "FetchFailure"]
    /\ UNCHANGED <<netbox, inventory_calls, device_list, task_total, ticks, fetch, order, results,
                   idx, avail, report, warnings>>

\* asyncio.run(main()) ends with the exception of main: it cancels the tasks
\* still pending and closes the event loop.
AsyncioRunEnd ==
    /\ pc["async"] = "closing"
    /\ pc' = [pc EXCEPT !["async"] = "crashed"]
    /\ fetch' = [fetch EXCEPT !["async"] = Abandon(@)]
    /\ UNCHANGED <<netbox, inventory_calls, device_list, task_total, ticks, order, results, idx,
                   avail, error, report, warnings>>

\* The results taken in the order in which the tasks completed.
GatherResults_CompletionOrder(v) ==
    [k \in DOMAIN order[v] |-> get_availability_async(device_list[v][order[v][k]])]

\* Every task returned: gather gives the results in the order of its
\* arguments, whatever the order of completion.
GatherResults(v) == [i \in DOMAIN device_list[v] |-> get_availability_async(device_list[v][i])]

\* The wait ended by the first completed task instead of the last: the
\* results are those of the tasks completed so far.
GatherReturn_FirstCompleted ==
    /\ pc["async"] = "gather"
    /\ \E i \in DOMAIN fetch["async"] : fetch["async"][i] = "done"
    /\ results' = [results EXCEPT !["async"] =
                      LET done == SelectSeq([i \in DOMAIN fetch["async"] |-> i],
                                            LAMBDA i : fetch["async"][i] = "done")
                      IN [k \in DOMAIN done |->
                            get_availability_async(device_list["async"][done[k]])]]
    /\ idx' = [idx EXCEPT !["async"] = 1]
    /\ pc' = [pc EXCEPT !["async"] = "advance"]
    /\ UNCHANGED <<netbox, inventory_calls, device_list, task_total, ticks, fetch, order,
                   avail, error, report, warnings>>

GatherReturn ==
    /\ pc["async"] = "gather"
    /\ \A i \in DOMAIN fetch["async"] : fetch["async"][i] = "done"
    /\ results' = [results EXCEPT !["async"] = GatherResults("async")]
    /\ idx' = [idx EXCEPT !["async"] = 1]
    /\ pc' = [pc EXCEPT !["async"] = "advance"]
    /\ UNCHANGED <<netbox, inventory_calls, device_list, task_total, ticks, fetch, order,
                   avail, error, report, warnings>>

\* for result in results: if result is not None: progress.advance(task_id)
AdvanceLoop ==
    /\ pc["async"] = "advance"
    /\ idx["async"] \in DOMAIN results["async"]
    /\ ticks' = [ticks EXCEPT !["async"] =
                    IF results["async"][idx["async"]].kind # "None" THEN @ + 1 ELSE @]
    /\ idx' = [idx EXCEPT !["async"] = @ + 1]
    /\ UNCHANGED <<netbox, inventory_calls, pc, device_list, task_total, fetch, order, results,
                   avail, error, report, warnings>>

\* return results
MultiAsyncReturn ==
    /\ pc["async"] = "advance"
    /\ idx["async"] = Len(results["async"]) + 1
    /\ pc' = [pc EXCEPT !["async"] = "aggregate"]
    /\ UNCHANGED <<netbox, inventory_calls, device_list, task_total, ticks, fetch, order, results, idx,
                   avail, error, report, warnings>>

----------------------------------------------------------------------------
(* Main, both programs: avail = average_availability(results); the prints  *)

AverageAvailability(v) ==
    /\ pc[v] = "aggregate"
    /\ LET a == Aggregate(v, results[v])
       IN IF a.raised = "none"
          THEN /\ avail' = [avail EXCEPT ![v] = a.value]
               /\ pc' = [pc EXCEPT ![v] = "print"]
               /\ error' = error
          ELSE /\ pc' = [pc EXCEPT ![v] = "crashed"]
               /\ error' = [error EXCEPT ![v] = a.raised]
               /\ avail' = avail
    /\ UNCHANGED <<netbox, inventory_calls, device_list, task_total, ticks, fetch, order, results, idx,
                   report, warnings>>

PrintReport(v) ==
    /\ pc[v] = "print"
    /\ report' = [report EXCEPT ![v] = Append(@, Render(avail[v]))]
    /\ pc' = [pc EXCEPT ![v] = "done"]
    /\ UNCHANGED <<netbox, inventory_calls, device_list, task_total, ticks, fetch, order, results, idx,
                   avail, error, warnings>>

----------------------------------------------------------------------------

\* The steps of multi_proc and of multi_async.
MultiProcStep ==
    \/ AddTask("proc")
    \/ \E i \in DOMAIN fetch["proc"] :
          \/ WorkerStart(i) \/ WorkerDiagnostic(i) \/ WorkerFinish(i)
          \/ WorkerWrite(i) \/ WorkerPut(i)
    \/ ImapNext
    \/ ImapStop

MultiAsyncStep ==
    \/ AddTask("async")
    \/ Gather
    \/ \E i \in DOMAIN fetch["async"] : TaskFinish(i)
    \/ GatherRaise
    \/ GatherReturn
    \/ AdvanceLoop
    \/ MultiAsyncReturn

Next ==
    \/ \E v \in Variants : GetListOfDevices(v)
    \/ \E v \in Variants : AddTask(v)
    \/ \E i \in DOMAIN netbox.devices : WorkerStart(i)
    \/ \E i \in DOMAIN netbox.devices : WorkerDiagnostic(i)
    \/ \E i \in DOMAIN netbox.devices : WorkerFinish(i)
    \/ \E i \in DOMAIN netbox.devices : WorkerWrite(i)
    \/ \E i \in DOMAIN netbox.devices : WorkerPut(i)
    \/ ImapNext
    \/ ImapStop
    \/ Gather
    \/ \E i \in DOMAIN netbox.devices : TaskFinish(i)
    \/ GatherRaise
    \/ AsyncioRunEnd
    \/ GatherReturn
    \/ AdvanceLoop
    \/ MultiAsyncReturn
    \/ \E v \in Variants : AverageAvailability(v)
    \/ \E v \in Variants : PrintReport(v)

Spec == Init /\ [][Next]_vars

\* The same programs over the wider set of responses.
FetchSpec == FetchInit /\ [][Next]_vars

----------------------------------------------------------------------------

TypeOK ==
    /\ netbox \in Inventories \cup FetchInventories
    /\ \A v \in Variants :
        /\ inventory_calls[v] \in 0..1
        /\ pc[v] \in {"start", "multi", "imap", "tasks", "gather", "raising",
                      "advance", "aggregate", "print", "done", "crashed", "hung",
                      "waiting", "closing"}
        /\ \A i \in DOMAIN fetch[v] :
              fetch[v][i] \in {"idle", "running", "sending", "written", "done", "cancelled"}
        /\ ticks[v] \in 0..MaxDevices
        /\ task_total[v] \in -1..MaxDevices
        /\ Len(results[v]) <= Len(device_list[v])

----------------------------------------------------------------------------
(* Vocabulary of the properties                                            *)

RunEnded(v) == pc[v] \in {"done", "crashed"}

\* The main process of program v will take no further step: the run has
\* ended, or it waits for ever in the termination of its pool or for the
\* next result of pool.imap.
Halted(v) == RunEnded(v) \/ pc[v] \in {"hung", "waiting"}

\* get_availability has returned or raised for device i of program v.
Returned(v, i) == \E k \in DOMAIN order[v] : order[v][k] = i

\* The collection of program v is over: multi_proc / multi_async returned or
\* raised.
CollectionEnded(v) ==
    \/ pc[v] \in {"aggregate", "print", "done", "closing"}
    \/ pc[v] = "crashed" /\ error[v] # "InventoryFailure"

\* average_availability has been called by program v.
AggregatorInvoked(v) ==
    \/ pc[v] \in {"print", "done"}
    \/ pc[v] = "crashed" /\ error[v] \in {"KeyError", "ZeroDivisionError"}

\* results is about to be, or has been, handed to average_availability.
AtAggregator(v) == pc[v] = "aggregate" \/ AggregatorInvoked(v)

Fails(d) == d.response.raises
Absent(d) == ~d.response.raises /\ Len(d.response.availability) = 0
Succeeds(d) == ~d.response.raises /\ Len(d.response.availability) > 0
Durations(d) == {d.response.availability[k].duration : k \in DOMAIN d.response.availability}
FullRecord(d) == Succeeds(d) /\ Durations(d) = {DAY, WEEK, MONTH, YEAR}

\* The percentages, as numbers, that the devices of ds with a sample for
\* window w report for it, in inventory order.
ReportedValues(ds, w) ==
    LET having == SelectSeq(ds, LAMBDA d : Succeeds(d) /\ w \in Durations(d))
    IN [i \in DOMAIN having |->
          LET l == having[i].response.availability
              k == CHOOSE k \in DOMAIN l : l[k].duration = w /\ \A j \in DOMAIN l : l[j].duration = w => j <= k
          IN float(l[k].availability_perc)]

\* q is the mean of the non-empty sequence xs.
IsMeanOf(q, xs) == xs # <<>> /\ q = Mean(xs)

IndexPermutations(n) == {p \in [1..n -> 1..n] : \A i, j \in 1..n : p[i] = p[j] => i = j}

----------------------------------------------------------------------------
\* C1: at the end of a run over n devices the number of progress ticks is
\* exactly n, whatever the outcome of each device (record, Absent, failure).
C1_TicksEqualDeviceCount ==
    \A v \in Variants :
        (netbox.ok /\ RunEnded(v)) => ticks[v] = Len(device_list[v])

\* C2: when the fetch of one device fails, collection is not aborted: for
\* every other device whose fetch succeeded (here: completed with samples
\* for the four windows), the aggregator is called and the device's record
\* is in its input.
C2_FailureIsolation ==
    \A v \in Variants :
        (netbox.ok /\ RunEnded(v))
        => \A i, j \in DOMAIN device_list[v] :
              (/\ Fails(device_list[v][j])
               /\ FullRecord(device_list[v][i])
               /\ fetch[v][i] = "done")
              => /\ AggregatorInvoked(v)
                 /\ \E k \in DOMAIN results[v] :
                       results[v][k] = FetchOutcome(v, device_list[v][i])

\* C3: the sequence handed to average_availability holds no Absent (None)
\* entry: Absent devices are filtered out before the aggregator is called.
C3_NoAbsentInAggregatorInput ==
    \A v \in Variants :
        AtAggregator(v) => \A k \in DOMAIN results[v] : results[v][k].kind # "None"

\* C4: with at least one device, each of them Absent or reporting the four
\* windows, the run never ends in error, also when all devices are Absent.
C4_AbsentNeverFatal ==
    \A v \in Variants :
        (/\ netbox.ok
         /\ Len(netbox.devices) > 0
         /\ \A i \in DOMAIN netbox.devices :
               Absent(netbox.devices[i]) \/ FullRecord(netbox.devices[i]))
        => pc[v] # "crashed"

\* C5: when average_availability is called on records that all contain
\* window w (at least one of them), it returns for w the mean of their
\* values, and the same for every permutation of its input.
C5_MeanOfRecordsWithWindow ==
    \A v \in Variants : \A k \in 1..4 :
        LET w == WindowOrder[k]
            recs == NotNone(results[v])
        IN (/\ AggregatorInvoked(v)
            /\ Len(recs) > 0
            /\ \A i \in DOMAIN recs : w \in DOMAIN recs[i].samples)
           => /\ pc[v] \in {"print", "done"}
              /\ IsMeanOf(avail[v][Label(w)], ReportedValues(device_list[v], w))
              /\ \A p \in IndexPermutations(Len(results[v])) :
                    Aggregate(v, [i \in DOMAIN results[v] |-> results[v][p[i]]])
                       = Aggregate(v, results[v])

\* C6: when no record contributes a value to some window (or the record
\* list is empty), average_availability raises no division error and the
\* run goes on to report.
C6_EmptyWindowNotFatal ==
    \A v \in Variants :
        (/\ AggregatorInvoked(v)
         /\ \E k \in 1..4 : ReportedValues(device_list[v], WindowOrder[k]) = <<>>)
        => /\ error[v] # "ZeroDivisionError"
           /\ pc[v] \in {"print", "done"}

\* C7: on the same responses the process-pool pipeline (bound 1) and the
\* asyncio pipeline end the same way (completed or failed, with the same
\* kind of error) and print the same report, under every interleaving: once
\* neither of them can take a further step, their outcomes are the same.
C7_SameOutcome ==
    (Halted("proc") /\ Halted("async"))
    => /\ pc["proc"] = pc["async"]
       /\ error["proc"] = error["async"]
       /\ report["proc"] = report["async"]

\* C8: in every state the number of fetches started and not completed is at
\* most the concurrency bound, for both schedulers.
C8_BoundHonoured ==
    \A v \in Variants : Cardinality(InFlight(v)) <= max_processes

\* C9: when the inventory query fails or returns no device, the run ends
\* with the inventory error before any collection work: no progress task,
\* no fetch, no call of the aggregator.
C9_InventoryFailureIsTerminal ==
    \A v \in Variants :
        (~netbox.ok \/ Len(netbox.devices) = 0)
        => /\ task_total[v] = -1
           /\ \A i \in DOMAIN fetch[v] : fetch[v][i] = "idle"
           /\ ~AggregatorInvoked(v)
           /\ RunEnded(v) => (pc[v] = "crashed" /\ error[v] = "InventoryFailure")

\* C10: collection ends only when every device of the list has reached a
\* completed outcome, whatever the outcomes of the other devices.
C10_EveryDeviceCompletes ==
    \A v \in Variants :
        CollectionEnded(v) => \A i \in DOMAIN fetch[v] : fetch[v][i] = "done"

\* C11: records whose samples are a strict subset of the four windows are
\* accepted: when every window has a value from some record, the aggregation
\* does not fail and each window's mean is taken over exactly the records
\* that contain that window.
C11_StrictSubsetAccepted ==
    \A v \in Variants :
        (/\ AggregatorInvoked(v)
         /\ \A k \in 1..4 : ReportedValues(device_list[v], WindowOrder[k]) # <<>>)
        => /\ error[v] # "KeyError"
           /\ pc[v] \in {"print", "done"}
           /\ \A k \in 1..4 :
                IsMeanOf(avail[v][Label(WindowOrder[k])],
                         ReportedValues(device_list[v], WindowOrder[k]))

\* C12: get_availability reports a transport failure, a non-success HTTP
\* status and a malformed body as a failure: an entry of results (None or a
\* record) only ever comes from a response that arrived with a success
\* status and a well-formed body, and None only from an empty list.
C12_FailureDistinctFromAbsent ==
    \A v \in Variants : \A k \in DOMAIN results[v] :
        LET r == device_list[v][k].response
        IN /\ ~r.raises
           /\ r.status = 200
           /\ results[v][k].kind = "None" => r.availability = <<>>

\* C13: the inventory query is made exactly once per run, and has returned
\* before the progress task is created and before any fetch is dispatched;
\* the devices fetched and the progress total are those of that one call.
C13_InventoryOnceBeforeCollection ==
    \A v \in Variants :
        /\ inventory_calls[v] <= 1
        /\ pc[v] # "start" => inventory_calls[v] = 1
        /\ (task_total[v] # -1 \/ \E i \in DOMAIN fetch[v] : fetch[v][i] # "idle")
           => /\ inventory_calls[v] = 1
              /\ device_list[v] = netbox.devices
              /\ DOMAIN fetch[v] = DOMAIN netbox.devices
              /\ task_total[v] = Len(netbox.devices)

\* C13 witness: fetches are in flight over a list of two or more devices
\* obtained by the single inventory call.
C13_Witness ==
    \E v \in Variants :
        /\ InFlight(v) # {}
        /\ inventory_calls[v] = 1
        /\ Len(device_list[v]) >= 2
        /\ task_total[v] = Len(device_list[v])

\* C14: get_availability on an empty availability list returns None and
\* prints a diagnostic naming the device, without raising; on a non-empty
\* list it returns a record with the device's name and one key per distinct
\* duration of the list, each mapped to the percentage of an entry of the
\* list with that duration.
C14_FetchResult ==
    \A v \in Variants :
        /\ \A i \in DOMAIN fetch[v] :
              (Returned(v, i) /\ Absent(device_list[v][i]))
              => device_list[v][i].name \in warnings[v]
        /\ \A n \in warnings[v] :
              \E i \in DOMAIN fetch[v] :
                 /\ device_list[v][i].name = n
                 /\ fetch[v][i] # "idle"
                 /\ Absent(device_list[v][i])
        /\ error[v] = "FetchFailure"
           => \E i \in DOMAIN device_list[v] : Fails(device_list[v][i])
        /\ \A k \in DOMAIN results[v] :
              LET d == device_list[v][k]
                  l == d.response.availability
                  r == results[v][k]
              IN IF l = <<>>
                 THEN r = PyNone
                 ELSE /\ r.kind = "record"
                      /\ r.Name = d.name
                      /\ DOMAIN r.samples = Durations(d)
                      /\ \A w \in DOMAIN r.samples :
                            \E j \in DOMAIN l :
                               l[j].duration = w /\ l[j].availability_perc = r.samples[w]

\* C14 witness: results holds the None of a device that was warned about
\* and the record of a response that repeats a duration.
C14_Witness ==
    \E v \in Variants : \E i, j \in DOMAIN results[v] :
        /\ results[v][i] = PyNone
        /\ device_list[v][i].name \in warnings[v]
        /\ results[v][j].kind = "record"
        /\ Len(device_list[v][j].response.availability)
              > Cardinality(DOMAIN results[v][j].samples)

\* C15: under every interleaving, at the end of the run each device whose
\* fetch completed with a record or with None has exactly one entry in the
\* results collection: none is lost or duplicated.
C15_ExactlyOneOutcomePerDevice ==
    \A v \in Variants :
        (netbox.ok /\ RunEnded(v))
        => /\ Len(results[v]) <= Len(device_list[v])
           /\ \A i \in DOMAIN device_list[v] :
                 (fetch[v][i] = "done" /\ ~Fails(device_list[v][i]))
                 => /\ i \in DOMAIN results[v]
                    /\ results[v][i] = FetchOutcome(v, device_list[v][i])
                    /\ Succeeds(device_list[v][i])
                       => Cardinality({k \in DOMAIN results[v] :
                                          results[v][k] = results[v][i]}) = 1

\* Program v is inside multi_proc / multi_async.
InCollection(v) ==
    pc[v] \in {"multi", "imap", "tasks", "gather", "raising", "advance", "hung", "waiting"}

\* C16: the collection phase cannot deadlock: in every state inside
\* multi_proc / multi_async some step of the scheduler is enabled, and every
\* fetch in flight can complete whatever the state of the other fetches.
C16_NoDeadlock ==
    /\ InCollection("proc") => ENABLED MultiProcStep
    /\ InCollection("async") => ENABLED MultiAsyncStep
    /\ \A i \in InFlight("proc") :
          InCollection("proc") => ENABLED (WorkerDiagnostic(i) \/ WorkerFinish(i))
    /\ \A i \in Sending("proc") :
          InCollection("proc") => ENABLED (WorkerWrite(i) \/ WorkerPut(i))
    /\ \A i \in InFlight("async") : InCollection("async") => ENABLED TaskFinish(i)

\* C17: a run prints at most one report, and only at its end: after every
\* device's fetch has completed and average_availability has returned its
\* averages, which are the ones printed; a run that fails in collection or
\* in aggregation prints no report.
C17_OneReportAtRunEnd ==
    \A v \in Variants :
        /\ Len(report[v]) <= 1
        /\ report[v] # <<>>
           => /\ pc[v] = "done"
              /\ error[v] = "none"
              /\ \A i \in DOMAIN fetch[v] : fetch[v][i] = "done"
              /\ Aggregate(v, results[v]).raised = "none"
              /\ report[v][1] = Render(avail[v])
        /\ pc[v] \in {"crashed", "hung", "waiting", "closing"} => report[v] = <<>>
        /\ pc[v] = "done" => Len(report[v]) = 1

\* C17 witness: a run over two or more devices has ended with its report.
C17_Witness ==
    \E v \in Variants :
        /\ pc[v] = "done"
        /\ Len(report[v]) = 1
        /\ Len(device_list[v]) >= 2

\* C18: when no fetch fails, the results collection built by multi_proc and
\* by multi_async has exactly one entry per device, in input order: entry i
\* is the record carrying device i's name, or None if device i is Absent,
\* whatever the order in which the fetches completed.
C18_ResultsInInputOrder ==
    \A v \in Variants :
        /\ \A k \in DOMAIN results[v] :
              /\ k \in DOMAIN device_list[v]
              /\ IF Absent(device_list[v][k])
                 THEN results[v][k].kind = "None"
                 ELSE /\ results[v][k].kind = "record"
                      /\ results[v][k].Name = device_list[v][k].name
        /\ (/\ netbox.ok
            /\ \A i \in DOMAIN netbox.devices : ~Fails(netbox.devices[i])
            /\ pc[v] \in {"aggregate", "print", "done", "crashed"})
           => Len(results[v]) = Len(device_list[v])

\* C18 witness: multi_async returned the results of two or more devices, a
\* record among them, after the last device completed before the first.
C18_Witness ==
    /\ pc["async"] \in {"advance", "aggregate", "print", "done"}
    /\ Len(results["async"]) >= 2
    /\ order["async"][1] = Len(device_list["async"])
    /\ \E k \in DOMAIN results["async"] : results["async"][k].kind = "record"

====
